---------------------------- MODULE Spec2Model ----------------------------
(***************************************************************************)
(* Model of src/main.py (serena-backend): the /resolve request handler,    *)
(* the video-identifier extraction and the multi-provider resolution chain *)
(* resolve_audio_url; two /resolve requests served at the same time; the   *)
(* /search handler with youtube_search; the keep_awake thread.             *)
(*                                                                         *)
(* Python values are modelled with an explicit type tag, because the code  *)
(* branches on truthiness and on the TypeError of comparing None or a str  *)
(* with an int:                                                            *)
(*   a number field  is [t : "missing" | "null" | "str" | "int", n : Int]  *)
(*   a string field  is [t : "missing" | "null" | "str", s : Seq(char)]    *)
(* Strings are sequences of one-character strings, so that re.search,      *)
(* str.strip and the `in` substring test are computed on characters.       *)
(***************************************************************************)
EXTENDS Integers, Sequences, FiniteSets, TLC

VARIABLES
    url,        \* req.url of the request being handled (resolve_audio)
    pc,         \* position of the handler / of extraction
    idx,        \* index of the loop over PIPED_INSTANCES
    vid,        \* result of extract_video_id: [ok, id]
    contacted,  \* history: one entry per upstream request or extraction call
    resp,       \* the upstream response the attempt in progress is handling
    streams,    \* local `streams` / `audio_formats` / `formats` behind the returned URL
    best,       \* local `best` behind the returned URL: [some, i], i an index of streams
    caught,     \* history: the exception the last attempt's except clause caught
    result,     \* how resolve_audio_url ended: [kind, url, exc]
    http,       \* the HTTP response of the handler: [status, audio_url, detail]
    upstream,   \* what each provider answers while the upstream is unchanged;
                \* the empty function when any answer is possible
    run,        \* number of the request for this URL: 1, or 2 for the repetition
    first,      \* how resolve_audio_url ended in the first request
    other,      \* the locals of a second /resolve request served by another
                \* worker thread, while that thread is not the one running
    kpc,        \* position of the keep_awake thread
    ping,       \* the self-ping of keep_awake: the request and how it ended
    query,      \* req.query of a /search request
    asked,      \* what ydl.extract_info was called with by youtube_search
    listing,    \* what that call gave
    found       \* the HTTP response of search_song: [status, results, detail]

vars ==
    <<url, pc, idx, vid, contacted, resp, streams, best, caught, result, http,
      upstream, run, first, other, kpc, ping, query, asked, listing, found>>

\* the state of one /resolve request and of the upstream it runs against
resolveVars ==
    <<url, pc, idx, vid, contacted, resp, streams, best, caught, result, http,
      upstream, run, first>>

\* the state of the keep_awake thread, and of a /search request
keepVars == <<kpc, ping>>
searchVars == <<query, asked, listing, found>>

----------------------------------------------------------------------------
(* Bounds of the model                                                     *)

\* longest candidate list one fast provider returns
MaxStreams == 3
\* longest `formats` list the full extraction returns
MaxFormats == 2
\* number of chunks an input string of extract_video_id is built from
MaxUrlParts == 4

----------------------------------------------------------------------------
(* Characters and strings                                                  *)

\* the character class [A-Za-z0-9_-] of the pattern
IdChars ==
    {"a", "b", "c", "d", "e", "f", "g", "h", "i", "j", "k", "l", "m", "n",
     "o", "p", "q", "r", "s", "t", "u", "v", "w", "x", "y", "z", "A", "B",
     "C", "D", "E", "F", "G", "H", "I", "J", "K", "L", "M", "N", "O", "P",
     "Q", "R", "S", "T", "U", "V", "W", "X", "Y", "Z", "0", "1", "2", "3",
     "4", "5", "6", "7", "8", "9", "_", "-"}

Whitespace == {" "}

\* sub occurs in s at position i (1-based)
OccursAt(sub, s, i) ==
    /\ i >= 1
    /\ i + Len(sub) - 1 <= Len(s)
    /\ \A k \in 1..Len(sub) : s[i + k - 1] = sub[k]

\* Python's `sub in s` on strings
Contains(s, sub) == \E i \in 1..(Len(s) + 1) : OccursAt(sub, s, i)

\* Python's str.strip(): leading and trailing whitespace removed
strip(s) ==
    LET keep == {i \in 1..Len(s) : s[i] \notin Whitespace}
    IN  IF keep = {} THEN <<>>
        ELSE LET lo == CHOOSE i \in keep : \A j \in keep : i <= j
                 hi == CHOOSE i \in keep : \A j \in keep : j <= i
             IN  SubSeq(s, lo, hi)

\* the longest run of IdChars of s that starts at position i (greedy +)
IdRun(s, i) ==
    LET stops == {j \in i..Len(s) : s[j] \notin IdChars}
        end == IF stops = {} THEN Len(s)
               ELSE (CHOOSE j \in stops : \A k \in stops : j <= k) - 1
    IN  SubSeq(s, i, end)

VParam == <<"v", "=">>
ShortHost == <<"y", "o", "u", "t", "u", ".", "b", "e", "/">>

\* the alternatives of the pattern's non-capturing group, in order
PatternPrefixes == <<VParam, ShortHost>>

\* position right after the group when the pattern matches at i, else 0
MatchEnd(s, i) ==
    LET hits == {a \in 1..Len(PatternPrefixes) :
                    /\ OccursAt(PatternPrefixes[a], s, i)
                    /\ i + Len(PatternPrefixes[a]) <= Len(s)
                    /\ s[i + Len(PatternPrefixes[a])] \in IdChars}
    IN  IF hits = {} THEN 0
        ELSE i + Len(PatternPrefixes[CHOOSE a \in hits : \A b \in hits : a <= b])

\* extract_video_id: re.search takes the leftmost match; no match raises
\* ValueError
extract_video_id(u) ==
    LET at == {i \in 1..Len(u) : MatchEnd(u, i) # 0}
    IN  IF at = {} THEN [ok |-> FALSE, id |-> <<>>]
        ELSE LET i == CHOOSE i \in at : \A j \in at : i <= j
             IN  [ok |-> TRUE, id |-> IdRun(u, MatchEnd(u, i))]

----------------------------------------------------------------------------
(* Python values                                                           *)

Int_(n) == [t |-> "int", n |-> n]
NoNum == [t |-> "missing", n |-> 0]
NullNum == [t |-> "null", n |-> 0]
StrNum == [t |-> "str", n |-> 0]

Str(s) == [t |-> "str", s |-> s]
NoStr == [t |-> "missing", s |-> <<>>]
NullStr == [t |-> "null", s |-> <<>>]

\* truth value of d.get(key) for a number field: None, a missing key and 0
\* are falsy, a non-empty str is truthy
TruthyNum(v) == v.t = "str" \/ (v.t = "int" /\ v.n # 0)

\* truth value of d.get(key) for a string field
TruthyStr(v) == v.t = "str" /\ v.s # <<>>

\* sorted(pairs, key = first component): stable, ascending; pairs are
\* <<key, item>> with integer keys
RECURSIVE sorted(_)
sorted(pairs) ==
    IF pairs = <<>> THEN <<>>
    ELSE LET init == sorted(SubSeq(pairs, 1, Len(pairs) - 1))
             x == pairs[Len(pairs)]
             k == Cardinality({i \in 1..Len(init) : init[i][1] <= x[1]})
         IN  SubSeq(init, 1, k) \o <<x>> \o SubSeq(init, k + 1, Len(init))

\* all sequences over S of length at most n
SeqsUpTo(S, n) == UNION {[1..k -> S] : k \in 0..n}

NoBest == [some |-> FALSE, i |-> 0]

\* how far a try block gets on a response: `best` is picked, a URL is
\* returned, the block is left without a URL, or an exception is raised
Picked(ss, b) ==
    [kind |-> "picked", url |-> NoStr, exc |-> "", streams |-> ss,
     best |-> [some |-> TRUE, i |-> b]]
Returned(u, ss, b) ==
    [kind |-> "return", url |-> u, exc |-> "", streams |-> ss, best |-> b]
FellThrough ==
    [kind |-> "next", url |-> NoStr, exc |-> "", streams |-> <<>>, best |-> NoBest]
Raised(e) ==
    [kind |-> "raise", url |-> NoStr, exc |-> e, streams |-> <<>>, best |-> NoBest]

----------------------------------------------------------------------------
(* Selection among the candidates of one fast provider                     *)

\* the ceiling of lines 131, 153 and 176
BITRATE_CEILING == 128000

\* s.get("bitrate") and s.get("bitrate") <= 128000
WithinCeiling(s) == TruthyNum(s.bitrate) /\ s.bitrate.n <= BITRATE_CEILING

\* the comparison of a str with an int raises TypeError
FilterRaises(ss) == \E i \in 1..Len(ss) : ss[i].bitrate.t = "str"

\* indices (into ss) of `filtered`: the within-ceiling candidates in list
\* order, or every candidate when there is none
FilteredIdx(ss) ==
    LET all == [i \in 1..Len(ss) |-> i]
        low == SelectSeq(all, LAMBDA i : WithinCeiling(ss[i]))
    IN  IF low = <<>> THEN all ELSE low

\* mutant of SortKey: x.get("bitrate", 10**9), a missing key ranks first
SortKeyMissingHigh(x) ==
    IF x.bitrate.t = "missing" THEN Int_(1000000000) ELSE x.bitrate

\* x.get("bitrate", 0): a missing key counts 0, a null stays None
SortKey(x) == IF x.bitrate.t = "missing" THEN Int_(0) ELSE x.bitrate

\* sorted() compares keys as soon as there are two elements; None < int
\* and None < None raise TypeError
SortRaises(ss, fi) ==
    Len(fi) >= 2 /\ \E k \in 1..Len(fi) : SortKey(ss[fi[k]]).t # "int"

\* mutant of BestIdx: the first element of the sorted list is taken, [0]
BestIdxFirst(ss, fi) ==
    LET srt == sorted([k \in 1..Len(fi) |-> <<SortKey(ss[fi[k]]).n, fi[k]>>])
    IN  srt[1][2]

\* index of best = sorted(filtered, key = bitrate)[-1]
BestIdx(ss, fi) ==
    LET srt == sorted([k \in 1..Len(fi) |-> <<SortKey(ss[fi[k]]).n, fi[k]>>])
    IN  srt[Len(srt)][2]

\* lines 128-137 (and 150-159, 173-182): from a candidate list to `best`
SelectFrom(ss) ==
    IF ss = <<>> THEN FellThrough
    ELSE IF FilterRaises(ss) THEN Raised("TypeError")
    ELSE LET fi == FilteredIdx(ss)
         IN  IF SortRaises(ss, fi) THEN Raised("TypeError")
             ELSE Picked(ss, BestIdx(ss, fi))

\* mutant of HasUrl: a URL of the fallback format tag is not returned
HasUrlNotFallbackTag(c) == TruthyStr(c.url) /\ c.itag # 251

\* mutant of HasUrl: `best` is returned without the test
HasUrlUntested(c) == TRUE

\* lines 138, 160, 183: best.get("url")
HasUrl(c) == TruthyStr(c.url)

----------------------------------------------------------------------------
(* Upstream responses the model draws from                                 *)

Cand(b, u, tag, m) == [bitrate |-> b, url |-> u, itag |-> tag, mimeType |-> m]

AudioWebm == Str(<<"a", "u", "d", "i", "o", "/", "w", "e", "b", "m">>)
VideoMp4 == Str(<<"v", "i", "d", "e", "o", "/", "m", "p", "4">>)
AudioWord == <<"a", "u", "d", "i", "o">>

\* a direct (progressive) stream URL, and a playlist-manifest URL
U(c) == Str(<<"/", "/", "x", "/", c>>)
ManifestUrl == Str(<<"/", "/", "x", "/", "a", ".", "m", "3", "u", "8">>)
ManifestMarker == <<".", "m", "3", "u", "8">>

\* entries of a mirror's "audioStreams"
StreamPool ==
    {Cand(Int_(64000), U("a"), 250, AudioWebm),
     Cand(Int_(128000), U("b"), 250, AudioWebm),
     Cand(Int_(128000), U("c"), 251, AudioWebm),
     Cand(Int_(160000), U("d"), 251, AudioWebm),
     Cand(Int_(256000), U("e"), 251, AudioWebm),
     Cand(NoNum, U("f"), 250, AudioWebm),
     Cand(NullNum, U("g"), 250, AudioWebm),
     Cand(Int_(0), U("h"), 250, AudioWebm),
     Cand(StrNum, U("i"), 250, AudioWebm),
     Cand(Int_(128000), ManifestUrl, 250, AudioWebm),
     Cand(Int_(128000), NoStr, 250, AudioWebm)}

\* entries of the unofficial API's "adaptiveFormats": the same, and
\* formats that are no audio or carry no usable mimeType
FormatPool ==
    StreamPool \cup
    {Cand(Int_(64000), U("v"), 18, VideoMp4),
     Cand(Int_(64000), U("n"), 250, NullStr),
     Cand(Int_(64000), U("m"), 250, NoStr)}

\* an HTTP exchange with a fast provider: a network error or timeout, a
\* non-200 status, a body that is no JSON, a JSON value that is no object,
\* an object without the list, or an object with the list
FastFailures == {"neterr", "non200", "badjson", "notdict", "nokey"}
FastResp(k, ss) == [kind |-> k, streams |-> ss]
FastResponses(pool) ==
    {FastResp(k, <<>>) : k \in FastFailures} \cup
    {FastResp("ok", ss) : ss \in SeqsUpTo(pool, MaxStreams)}

\* one format of the full extraction's info["formats"]
Fmt(u, a, b) == [url |-> u, abr |-> a, tbr |-> b]
DlpFormatPool ==
    {Fmt(U("p"), Int_(128), NoNum),
     Fmt(U("q"), NullNum, Int_(160)),
     Fmt(U("r"), NoNum, NoNum),
     Fmt(NoStr, Int_(256), NoNum),
     Fmt(U("s"), Int_(160), NoNum)}

\* what ydl.extract_info gives: an exception, None, or an info dict with
\* or without a top-level "url" (which may be null or empty)
DlpInfo(k, u, fs) == [kind |-> k, url |-> u, formats |-> fs]
DlpResponses ==
    {DlpInfo("raise", NoStr, <<>>), DlpInfo("none", NoStr, <<>>)} \cup
    {DlpInfo("info", u, fs) :
        u \in {NoStr, NullStr, Str(<<>>), U("t")},
        fs \in SeqsUpTo(DlpFormatPool, MaxFormats)}

----------------------------------------------------------------------------
(* One attempt per provider                                                *)

\* lines 125-137 and 147-159: the answer of GET {instance}/streams/{video_id}
PipedAttempt(r) ==
    CASE r.kind = "neterr" -> Raised("ConnectionError")
      [] r.kind = "non200" -> FellThrough
      [] r.kind = "badjson" -> Raised("JSONDecodeError")
      [] r.kind = "notdict" -> Raised("AttributeError")
      [] r.kind = "nokey" -> FellThrough
      [] r.kind = "ok" -> SelectFrom(r.streams)

\* "audio" in f.get("mimeType", ""): a missing key is "", a null raises
IsAudio(f) == f.mimeType.t = "str" /\ Contains(f.mimeType.s, AudioWord)
MimeRaises(fs) == \E i \in 1..Len(fs) : fs[i].mimeType.t = "null"

\* lines 169-182: the answer of GET .../api/v1/video?id={video_id}
YoutubeiAttempt(r) ==
    CASE r.kind = "neterr" -> Raised("ConnectionError")
      [] r.kind = "non200" -> FellThrough
      [] r.kind = "badjson" -> Raised("JSONDecodeError")
      [] r.kind = "notdict" -> Raised("AttributeError")
      [] r.kind = "nokey" -> FellThrough
      [] r.kind = "ok" ->
            IF MimeRaises(r.streams) THEN Raised("TypeError")
            ELSE SelectFrom(SelectSeq(r.streams, IsAudio))

\* x.get("abr") or x.get("tbr") or 0
DlpKey(f) ==
    IF TruthyNum(f.abr) THEN f.abr.n
    ELSE IF TruthyNum(f.tbr) THEN f.tbr.n ELSE 0

\* lines 197-206: the full extraction
YtDlpAttempt(info) ==
    CASE info.kind = "raise" -> Raised("DownloadError")
      [] info.kind = "none" -> Raised("TypeError")
      [] info.kind = "info" ->
            IF info.url.t # "missing"
            THEN Returned(info.url, info.formats, NoBest)
            ELSE LET all == [i \in 1..Len(info.formats) |-> i]
                     au == SelectSeq(all, LAMBDA i : TruthyStr(info.formats[i].url))
                 IN  IF au = <<>> THEN FellThrough
                     ELSE LET srt == sorted([k \in 1..Len(au) |->
                                         <<DlpKey(info.formats[au[k]]), au[k]>>])
                              b == srt[Len(srt)][2]
                          IN  Returned(info.formats[b].url, info.formats,
                                       [some |-> TRUE, i |-> b])

----------------------------------------------------------------------------
(* The request handler and the chain                                       *)

\* mutant of PIPED_INSTANCES: the list is rotated between requests
PIPED_INSTANCES_Rotated ==
    IF run = 1
    THEN <<"https://pipedapi.kavin.rocks",
           "https://pipedapi.in.projectsegfau.lt",
           "https://pipedapi.brighteon.wtf">>
    ELSE <<"https://pipedapi.in.projectsegfau.lt",
           "https://pipedapi.brighteon.wtf",
           "https://pipedapi.kavin.rocks">>

\* the configured mirrors, in list order (lines 19-23)
PIPED_INSTANCES ==
    <<"https://pipedapi.kavin.rocks",
      "https://pipedapi.in.projectsegfau.lt",
      "https://pipedapi.brighteon.wtf">>
PipedVideo == "https://piped.video"
YoutubeiApi == "https://yt-api.yashvardhan.info"
YtDlp == "yt-dlp"

\* the providers in the order the function body tries them
ChainOrder == PIPED_INSTANCES \o <<PipedVideo, YoutubeiApi, YtDlp>>

\* mutant of ChainCatches: `except requests.RequestException:`
ChainCatchesRequestErrors(exc) == exc = "ConnectionError"

\* the bare `except:` of lines 140, 162, 185 and 207 catches everything
ChainCatches(exc) == TRUE

\* mutant of HandlerCatches: `except ValueError`
HandlerCatchesValueError(exc) == exc = "ValueError"

\* `except Exception` of line 285: every exception of the model derives
\* from Exception
HandlerCatches(exc) ==
    exc \in {"ValueError", "RuntimeError", "TypeError", "AttributeError",
             "JSONDecodeError", "ConnectionError", "DownloadError"}

NoResult == [kind |-> "none", url |-> NoStr, exc |-> ""]
NoHttp == [status |-> 0, audio_url |-> NoStr, detail |-> ""]

\* resolve_audio, lines 281-286: the response for what the try body did
resolve_audio(kind, u, exc) ==
    IF kind = "return"
    THEN [status |-> 200, audio_url |-> u, detail |-> ""]
    ELSE IF HandlerCatches(exc)
         THEN [status |-> 400, audio_url |-> NoStr, detail |-> exc]
         ELSE [status |-> 500, audio_url |-> NoStr, detail |-> exc]

\* resolve_audio_url ends (a return or a raise) and the handler answers
Finish(kind, u, exc) ==
    /\ result' = [kind |-> kind, url |-> u, exc |-> exc]
    /\ http' = resolve_audio(kind, u, exc)
    /\ pc' = "done"

\* no response in hand
NoResp == [kind |-> "idle", streams |-> <<>>]

\* a blocking call starts: the provider is contacted and its answer, any
\* of the responses it can give, is in hand when the call comes back
Call(provider, responses, wait) ==
    /\ contacted' = Append(contacted,
                           [provider |-> provider, yielded |-> FALSE, url |-> NoStr])
    /\ resp' \in (IF provider \in DOMAIN upstream
                  THEN {upstream[provider]} ELSE responses)
    /\ pc' = wait
    /\ caught' = ""
    /\ UNCHANGED <<url, idx, vid, streams, best, result, http, upstream, run, first>>
    /\ UNCHANGED <<other, keepVars, searchVars>>

\* the try block is left without a return (fall through, or an exception
\* the except clause catches): on to the next provider, and after the
\* last one line 210 raises RuntimeError.  An exception the clause does
\* not catch leaves resolve_audio_url.  The locals of the attempt are
\* dead and are not kept.
Advance(att, npc, nidx) ==
    /\ streams' = <<>>
    /\ best' = NoBest
    /\ caught' = IF att.kind = "raise" /\ ChainCatches(att.exc) THEN att.exc ELSE ""
    /\ IF att.kind = "raise" /\ ~ChainCatches(att.exc)
       THEN Finish("raise", NoStr, att.exc) /\ idx' = idx
       ELSE IF npc = "raise"
       THEN Finish("raise", NoStr, "RuntimeError") /\ idx' = idx
       ELSE pc' = npc /\ idx' = nidx /\ UNCHANGED <<result, http>>

\* the answer of a fast provider is processed up to `best`
Pick(att, picked, npc, nidx) ==
    /\ resp' = NoResp
    /\ IF att.kind = "picked"
       THEN /\ streams' = att.streams
            /\ best' = att.best
            /\ pc' = picked
            /\ UNCHANGED <<idx, caught, result, http>>
       ELSE Advance(att, npc, nidx)
    /\ UNCHANGED <<url, vid, contacted, upstream, run, first>>
    /\ UNCHANGED <<other, keepVars, searchVars>>

\* `if best.get("url"): return best["url"]`, else on to the next provider
Decide(npc, nidx) ==
    LET b == streams[best.i]
    IN  /\ contacted' = [contacted EXCEPT
                            ![Len(contacted)].yielded = TruthyStr(b.url),
                            ![Len(contacted)].url = b.url]
        /\ IF HasUrl(b)
           THEN Finish("return", b.url, "") /\ UNCHANGED <<idx, streams, best, caught>>
           ELSE Advance(FellThrough, npc, nidx)
        /\ UNCHANGED <<url, vid, resp, upstream, run, first>>
        /\ UNCHANGED <<other, keepVars, searchVars>>

\* lines 281-283: strip, extract the identifier; ValueError goes to the
\* handler's except clause
Receive ==
    /\ pc = "recv"
    /\ LET v == extract_video_id(strip(url))
       IN  /\ vid' = v
           /\ IF v.ok
              THEN pc' = "piped" /\ idx' = 1 /\ UNCHANGED <<result, http>>
              ELSE /\ result' = result
                   /\ http' = resolve_audio("raise", NoStr, "ValueError")
                   /\ pc' = "done"
                   /\ idx' = idx
    /\ UNCHANGED <<url, contacted, resp, streams, best, caught, upstream, run, first>>
    /\ UNCHANGED <<other, keepVars, searchVars>>

\* lines 121-124: one iteration of the loop over PIPED_INSTANCES, the GET
GetPiped ==
    /\ pc = "piped"
    /\ idx <= Len(PIPED_INSTANCES)
    /\ Call(PIPED_INSTANCES[idx], FastResponses(StreamPool), "piped:wait")

\* mutant of AfterPiped: the loop skips every other instance
AfterPipedSkips(i) ==
    IF i + 1 < Len(PIPED_INSTANCES)
    THEN [pc |-> "piped", idx |-> i + 2]
    ELSE [pc |-> "piped.video", idx |-> i]

\* mutant of AfterPiped: after the last instance the loop starts again
AfterPipedLoopsBack(i) ==
    IF i < Len(PIPED_INSTANCES)
    THEN [pc |-> "piped", idx |-> i + 1]
    ELSE [pc |-> "piped", idx |-> 1]

\* where the loop goes after instance i
AfterPiped(i) ==
    IF i < Len(PIPED_INSTANCES)
    THEN [pc |-> "piped", idx |-> i + 1]
    ELSE [pc |-> "piped.video", idx |-> i]

\* lines 125-137
PickPiped ==
    /\ pc = "piped:wait"
    /\ Pick(PipedAttempt(resp), "piped:picked", AfterPiped(idx).pc, AfterPiped(idx).idx)

\* lines 138-141
ReturnPiped ==
    /\ pc = "piped:picked"
    /\ Decide(AfterPiped(idx).pc, AfterPiped(idx).idx)

\* lines 143-146
GetPipedVideo ==
    /\ pc = "piped.video"
    /\ Call(PipedVideo, FastResponses(StreamPool), "piped.video:wait")

\* lines 147-159
PickPipedVideo ==
    /\ pc = "piped.video:wait"
    /\ Pick(PipedAttempt(resp), "piped.video:picked", "youtubei", idx)

\* lines 160-163
ReturnPipedVideo ==
    /\ pc = "piped.video:picked"
    /\ Decide("youtubei", idx)

\* lines 165-168
GetYoutubei ==
    /\ pc = "youtubei"
    /\ Call(YoutubeiApi, FastResponses(FormatPool), "youtubei:wait")

\* lines 169-182
PickYoutubei ==
    /\ pc = "youtubei:wait"
    /\ Pick(YoutubeiAttempt(resp), "youtubei:picked", "yt-dlp", idx)

\* lines 183-186
ReturnYoutubei ==
    /\ pc = "youtubei:picked"
    /\ Decide("yt-dlp", idx)

\* lines 188-198
CallYtDlp ==
    /\ pc = "yt-dlp"
    /\ Call(YtDlp, DlpResponses, "yt-dlp:wait")

\* lines 199-210
HandleYtDlp ==
    /\ pc = "yt-dlp:wait"
    /\ LET att == YtDlpAttempt(resp)
       IN  /\ contacted' = [contacted EXCEPT
                               ![Len(contacted)].yielded = (att.kind = "return"),
                               ![Len(contacted)].url = att.url]
           /\ resp' = NoResp
           /\ IF att.kind = "return"
              THEN /\ Finish("return", att.url, "")
                   /\ streams' = att.streams
                   /\ best' = att.best
                   /\ idx' = idx
                   /\ caught' = caught
              ELSE Advance(att, "raise", idx)
    /\ UNCHANGED <<url, vid, upstream, run, first>>
    /\ UNCHANGED <<other, keepVars, searchVars>>

\* no second request, no self-ping and no /search request in hand
NoOther == [pc |-> "none"]
NoPing == [method |-> "", path |-> "", outcome |-> "none", handler |-> "none",
           before |-> "none"]
NoListing == [kind |-> "none", entries |-> <<>>]
NoFound == [status |-> 0, results |-> <<>>, detail |-> ""]

\* one /resolve request is looked at on its own: the thread of keep_awake
\* and the other handlers are left out
OneResolveOnly ==
    /\ other = NoOther
    /\ kpc = "off"
    /\ ping = NoPing
    /\ query = <<>>
    /\ asked = <<>>
    /\ listing = NoListing
    /\ found = NoFound

Scheme == <<"h", "t", "t", "p", "s", ":", "/", "/">>
WatchHost ==
    <<"w", "w", "w", ".", "y", "o", "u", "t", "u", "b", "e", ".", "c", "o",
      "m", "/", "w", "a", "t", "c", "h", "?">>
IdA == <<"d", "Q", "w", "4">>
IdB == <<"_", "-", "9">>
Amp == <<"&", "t", "=", "1">>
OtherSite == <<"e", "x", "a", "m", "p", "l", "e", ".", "c", "o", "m", "/", "?">>
Blank == <<" ">>

\* the request bodies of the model: a short link with blanks around it, a
\* watch URL with a further parameter, a URL without identifier, nothing
ReqUrls ==
    {Blank \o Scheme \o ShortHost \o IdA \o Blank,
     Scheme \o WatchHost \o VParam \o IdB \o Amp,
     Scheme \o OtherSite,
     <<>>}

Init ==
    /\ url \in ReqUrls
    /\ pc = "recv"
    /\ idx = 0
    /\ vid = [ok |-> FALSE, id |-> <<>>]
    /\ contacted = <<>>
    /\ resp = NoResp
    /\ streams = <<>>
    /\ best = NoBest
    /\ caught = ""
    /\ result = NoResult
    /\ http = NoHttp
    /\ upstream = <<>>
    /\ run = 1
    /\ first = NoResult
    /\ OneResolveOnly

Next ==
    \/ Receive
    \/ GetPiped \/ PickPiped \/ ReturnPiped
    \/ GetPipedVideo \/ PickPipedVideo \/ ReturnPipedVideo
    \/ GetYoutubei \/ PickYoutubei \/ ReturnYoutubei
    \/ CallYtDlp \/ HandleYtDlp

Spec == Init /\ [][Next]_vars

----------------------------------------------------------------------------
(* Identifier extraction on its own                                        *)

RECURSIVE Concat(_)
Concat(parts) ==
    IF parts = <<>> THEN <<>> ELSE Head(parts) \o Concat(Tail(parts))

\* the strings extraction is tried on: up to MaxUrlParts pieces of URLs
UrlChunks == {Scheme, WatchHost, ShortHost, VParam, IdA, IdB, Amp, OtherSite}
UrlInputs == {Concat(parts) : parts \in SeqsUpTo(UrlChunks, MaxUrlParts)}

ExtractInit ==
    /\ url \in UrlInputs
    /\ pc = "extract"
    /\ idx = 0
    /\ vid = [ok |-> FALSE, id |-> <<>>]
    /\ contacted = <<>>
    /\ resp = NoResp
    /\ streams = <<>>
    /\ best = NoBest
    /\ caught = ""
    /\ result = NoResult
    /\ http = NoHttp
    /\ upstream = <<>>
    /\ run = 1
    /\ first = NoResult
    /\ OneResolveOnly

\* lines 65-70 applied to the string
ExtractId ==
    /\ pc = "extract"
    /\ vid' = extract_video_id(url)
    /\ pc' = "extracted"
    /\ UNCHANGED <<url, idx, contacted, resp, streams, best, caught, result, http,
                   upstream, run, first>>
    /\ UNCHANGED <<other, keepVars, searchVars>>

ExtractSpec == ExtractInit /\ [][ExtractId]_vars

----------------------------------------------------------------------------
(* The same request twice against an unchanged upstream                    *)

\* answers of an unchanged fast provider: a failure, a list with only a
\* 160 kbit/s itag-251 stream, a list with a 64 kbit/s itag-250 stream,
\* a list of two streams that tie at 128 kbit/s, a stream without URL
FixedFast ==
    {FastResp("non200", <<>>),
     FastResp("ok", <<Cand(Int_(160000), U("d"), 251, AudioWebm)>>),
     FastResp("ok", <<Cand(Int_(64000), U("a"), 250, AudioWebm)>>),
     FastResp("ok", <<Cand(Int_(128000), U("b"), 250, AudioWebm),
                      Cand(Int_(128000), U("c"), 251, AudioWebm)>>),
     FastResp("ok", <<Cand(Int_(128000), NoStr, 250, AudioWebm)>>)}

\* answers of an unchanged full extraction
FixedDlp == {DlpInfo("raise", NoStr, <<>>), DlpInfo("info", U("t"), <<>>)}

Providers == {ChainOrder[k] : k \in 1..Len(ChainOrder)}

FixedInit ==
    /\ run = 1
    /\ url = Scheme \o ShortHost \o IdA
    /\ pc = "recv"
    /\ idx = 0
    /\ vid = [ok |-> FALSE, id |-> <<>>]
    /\ contacted = <<>>
    /\ resp = NoResp
    /\ streams = <<>>
    /\ best = NoBest
    /\ caught = ""
    /\ result = NoResult
    /\ http = NoHttp
    /\ upstream \in {f \in [Providers -> FixedFast \cup FixedDlp] :
                        \A q \in Providers : (f[q] \in FixedDlp) <=> (q = YtDlp)}
    /\ first = NoResult
    /\ OneResolveOnly

\* the first request is answered; the same URL is posted again
Repeat ==
    /\ pc = "done"
    /\ run = 1
    /\ run' = 2
    /\ first' = result
    /\ pc' = "recv"
    /\ idx' = 0
    /\ vid' = [ok |-> FALSE, id |-> <<>>]
    /\ contacted' = <<>>
    /\ resp' = NoResp
    /\ streams' = <<>>
    /\ best' = NoBest
    /\ caught' = ""
    /\ result' = NoResult
    /\ http' = NoHttp
    /\ UNCHANGED <<url, upstream>>
    /\ UNCHANGED <<other, keepVars, searchVars>>

FixedNext ==
    \/ Receive
    \/ GetPiped \/ PickPiped \/ ReturnPiped
    \/ GetPipedVideo \/ PickPipedVideo \/ ReturnPipedVideo
    \/ GetYoutubei \/ PickYoutubei \/ ReturnYoutubei
    \/ CallYtDlp \/ HandleYtDlp
    \/ Repeat

FixedSpec == FixedInit /\ [][FixedNext]_vars

----------------------------------------------------------------------------
(* POST /search: search_song and youtube_search                            *)

\* longest listing the extraction gives for a search
MaxEntries == 16

\* limit=15 of line 220 and the [:15] of line 232
SearchLimit == 15

UpperCase ==
    <<"A", "B", "C", "D", "E", "F", "G", "H", "I", "J", "K", "L", "M", "N",
      "O", "P", "Q", "R", "S", "T", "U", "V", "W", "X", "Y", "Z">>
LowerCase ==
    <<"a", "b", "c", "d", "e", "f", "g", "h", "i", "j", "k", "l", "m", "n",
      "o", "p", "q", "r", "s", "t", "u", "v", "w", "x", "y", "z">>

\* str.lower(), on the letters A-Z
lower(s) ==
    [i \in 1..Len(s) |->
        IF \E k \in 1..Len(UpperCase) : UpperCase[k] = s[i]
        THEN LowerCase[CHOOSE k \in 1..Len(UpperCase) : UpperCase[k] = s[i]]
        ELSE s[i]]

\* seq[:n]
Take(seq, n) == SubSeq(seq, 1, IF Len(seq) < n THEN Len(seq) ELSE n)

YoutubeCom == <<"y", "o", "u", "t", "u", "b", "e", ".", "c", "o", "m">>
YoutuBe == <<"y", "o", "u", "t", "u", ".", "b", "e">>

\* mutant of IsYoutube: no query is taken for a URL
IsYoutubeNever(q) == FALSE

\* lines 88 and 220: "youtube.com" in q or "youtu.be" in q
IsYoutube(q) == Contains(q, YoutubeCom) \/ Contains(q, YoutuBe)

\* the terms of line 227
MusicTerms ==
    {<<"m", "u", "s", "i", "c">>, <<"s", "o", "n", "g">>,
     AudioWord, <<"t", "r", "a", "c", "k">>}

\* mutant of IsMusic: every song passes
IsMusicAlways(s) == TRUE

\* lines 226-227: any(k in (s["title"] + " " + s["artist"]).lower() ...)
IsMusic(s) ==
    \E k \in MusicTerms : Contains(lower(s.title \o <<" ">> \o s.artist), k)

Unknown == <<"U", "n", "k", "n", "o", "w", "n">>
UnknownArtist ==
    <<"U", "n", "k", "n", "o", "w", "n", " ", "A", "r", "t", "i", "s", "t">>
WatchUrl ==
    <<"h", "t", "t", "p", "s", ":", "/", "/", "w", "w", "w", ".", "y", "o",
      "u", "t", "u", "b", "e", ".", "c", "o", "m", "/", "w", "a", "t", "c",
      "h", "?", "v", "=">>
ImgUrl ==
    <<"h", "t", "t", "p", "s", ":", "/", "/", "i", "m", "g", ".", "y", "o",
      "u", "t", "u", "b", "e", ".", "c", "o", "m", "/", "v", "i", "/">>
ImgFile ==
    <<"/", "h", "q", "d", "e", "f", "a", "u", "l", "t", ".", "j", "p", "g">>
YtSearch == <<"y", "t", "s", "e", "a", "r", "c", "h">>
Fifteen == <<"1", "5">>

\* one entry of what the extraction gives
Entry(i, t, u, th) == [id |-> i, title |-> t, uploader |-> u, thumbnail |-> th]

\* lines 97-104: the song summary of entry e
Song(e) ==
    [title |-> IF TruthyStr(e.title) THEN e.title.s ELSE Unknown,
     artist |-> IF TruthyStr(e.uploader) THEN e.uploader.s ELSE UnknownArtist,
     thumbnail |-> IF TruthyStr(e.thumbnail) THEN e.thumbnail.s
                   ELSE IF TruthyStr(e.id) THEN ImgUrl \o e.id.s \o ImgFile
                   ELSE <<>>,
     url |-> IF TruthyStr(e.id) THEN WatchUrl \o e.id.s ELSE <<>>]

\* what ydl.extract_info gives: an exception, None, the info dict of one
\* video (no "entries" key), a dict with a list of entries, a dict whose
\* "entries" is null; `self` holds the fields of the dict itself
Listing(k, self, es) == [kind |-> k, self |-> self, entries |-> es]

\* youtube_search, lines 87-105, on the answer ans of the extraction
youtube_search(q, limit, ans) ==
    IF ans.kind = "raise" THEN [kind |-> "raise", exc |-> "DownloadError", songs |-> <<>>]
    ELSE IF ans.kind = "none"
    THEN [kind |-> "raise", exc |-> "AttributeError", songs |-> <<>>]
    ELSE IF ~IsYoutube(q) /\ ans.kind = "nullentries"
    THEN [kind |-> "raise", exc |-> "TypeError", songs |-> <<>>]
    ELSE LET entries == IF IsYoutube(q) \/ ans.kind = "video"
                        THEN <<ans.self>> ELSE ans.entries
             cut == Take(entries, limit)
         IN  [kind |-> "return", exc |-> "",
              songs |-> [i \in 1..Len(cut) |-> Song(cut[i])]]

\* search_song, lines 218-235, on the answer ans of the extraction
search_song(qry, ans) ==
    LET q == strip(qry)
        raw == youtube_search(q, SearchLimit, ans)
    IN  IF raw.kind = "raise"
        THEN [status |-> 400, results |-> <<>>, detail |-> raw.exc]
        ELSE LET filtered == IF ~IsYoutube(q)
                             THEN SelectSeq(raw.songs, IsMusic) ELSE raw.songs
             IN  [status |-> 200, results |-> Take(filtered, SearchLimit),
                  detail |-> ""]

\* line 89 or line 92: what extract_info is called with
Asked(q) ==
    IF IsYoutube(q) THEN q ELSE YtSearch \o Fifteen \o <<":">> \o q

\* entries the listings are made of: a title with a term in capitals, no
\* term at all, a term in the uploader only, null fields, a term inside
\* a word and no id, a term split between title and uploader
EntrySeq ==
    <<Entry(Str(<<"a", "1">>), Str(<<"B", "e", "s", "t", " ", "S", "O", "N", "G">>),
            Str(<<"V", "e", "v", "o">>), NoStr),
      Entry(Str(<<"b", "2">>), Str(<<"C", "a", "t", " ", "v", "i", "d", "e", "o">>),
            Str(<<"P", "e", "t", "s">>), Str(<<"t", "2">>)),
      Entry(Str(<<"c", "3">>), NoStr, Str(<<"A", "u", "d", "i", "o", " ", "L", "a", "b">>), NoStr),
      Entry(Str(<<"d", "4">>), NullStr, NullStr, NullStr),
      Entry(NoStr, Str(<<"s", "o", "u", "n", "d", "t", "r", "a", "c", "k">>), NoStr, NoStr),
      Entry(Str(<<"f", "6">>), Str(<<"m", "u">>), Str(<<"s", "i", "c">>), NoStr)>>

\* a listing of n entries: every step-th entry of EntrySeq, from off on
Entries(n, off, step) ==
    [i \in 1..n |-> EntrySeq[((off + i * step) % Len(EntrySeq)) + 1]]

\* the answers of the extraction
SearchAnswers ==
    {Listing("raise", EntrySeq[1], <<>>), Listing("none", EntrySeq[1], <<>>)} \cup
    {Listing("video", EntrySeq[k], <<>>) : k \in 1..Len(EntrySeq)} \cup
    {Listing("nullentries", EntrySeq[k], <<>>) : k \in {1, 2}} \cup
    {Listing("list", EntrySeq[k], Entries(n, off, step)) :
        k \in {1, 2}, n \in 0..MaxEntries, off \in 0..(Len(EntrySeq) - 1),
        step \in {0, 1}}

\* the queries: keywords with blanks around them, a short link, a watch
\* URL, a host name among keywords
Queries ==
    {<<" ", " ", "l", "o", "f", "i", " ", "m", "u", "s", "i", "c", " ">>,
     <<"r", "o", "c", "k">>,
     Scheme \o ShortHost \o IdA \o Blank,
     Scheme \o WatchHost \o VParam \o IdB,
     <<"y", "o", "u", "t", "u", ".", "b", "e", " ", "h", "i", "t", "s">>}

SearchInit ==
    /\ query \in Queries
    /\ asked = <<>>
    /\ listing = NoListing
    /\ found = NoFound
    /\ pc = "search"
    /\ url = <<>>
    /\ idx = 0
    /\ vid = [ok |-> FALSE, id |-> <<>>]
    /\ contacted = <<>>
    /\ resp = NoResp
    /\ streams = <<>>
    /\ best = NoBest
    /\ caught = ""
    /\ result = NoResult
    /\ http = NoHttp
    /\ upstream = <<>>
    /\ run = 1
    /\ first = NoResult
    /\ other = NoOther
    /\ kpc = "off"
    /\ ping = NoPing

\* lines 219-221 and 87-92: the query is stripped and the extraction is
\* called, for the URL itself or for a search of 15
CallSearch ==
    /\ pc = "search"
    /\ asked' = Asked(strip(query))
    /\ listing' \in SearchAnswers
    /\ pc' = "search:wait"
    /\ UNCHANGED <<query, found, other, keepVars>>
    /\ UNCHANGED <<url, idx, vid, contacted, resp, streams, best, caught, result,
                   http, upstream, run, first>>

\* lines 93-105 and 223-235: the songs are built and filtered, the
\* response is sent
AnswerSearch ==
    /\ pc = "search:wait"
    /\ found' = search_song(query, listing)
    /\ pc' = "done"
    /\ UNCHANGED <<query, asked, listing, other, keepVars>>
    /\ UNCHANGED <<url, idx, vid, contacted, resp, streams, best, caught, result,
                   http, upstream, run, first>>

SearchNext == CallSearch \/ AnswerSearch

SearchSpec == SearchInit /\ [][SearchNext]_vars

----------------------------------------------------------------------------
(* What one request gives when nothing runs next to it                     *)

\* resolve_audio_url from the k-th provider on, against the answers up,
\* as one sequential computation
RECURSIVE AloneFrom(_, _)
AloneFrom(k, up) ==
    LET q == ChainOrder[k]
    IN  IF q = YtDlp
        THEN LET att == YtDlpAttempt(up[q])
             IN  IF att.kind = "return"
                 THEN [kind |-> "return", url |-> att.url, exc |-> ""]
                 ELSE [kind |-> "raise", url |-> NoStr, exc |-> "RuntimeError"]
        ELSE LET att == IF q = YoutubeiApi
                        THEN YoutubeiAttempt(up[q]) ELSE PipedAttempt(up[q])
             IN  IF att.kind = "picked" /\ HasUrl(att.streams[att.best.i])
                 THEN [kind |-> "return", url |-> att.streams[att.best.i].url,
                       exc |-> ""]
                 ELSE AloneFrom(k + 1, up)

\* the HTTP response of resolve_audio for the body u against the answers up
AloneOutcome(u, up) ==
    IF ~extract_video_id(strip(u)).ok
    THEN resolve_audio("raise", NoStr, "ValueError")
    ELSE LET r == AloneFrom(1, up)
         IN  resolve_audio(r.kind, r.url, r.exc)

----------------------------------------------------------------------------
(* Two /resolve requests served by two worker threads                      *)

\* mutant of SharedNames: the position of the loop over PIPED_INSTANCES is
\* kept in a module-level name
SharedNamesIdx == {"idx"}

\* the names of resolve_audio and resolve_audio_url that the threads
\* share: none, every name the two functions assign is a local (there is
\* no `global` statement and no attribute or item of a module-level
\* object is assigned)
SharedNames == {}

\* the value a thread finds in a name when it is scheduled again: the one
\* it left there, unless the name is shared
Found(name, left, current) == IF name \in SharedNames THEN current ELSE left

\* the locals of the running request, and the answers of the providers
\* for its video
Locals(id) ==
    [id |-> id, url |-> url, pc |-> pc, idx |-> idx, vid |-> vid,
     contacted |-> contacted, resp |-> resp, streams |-> streams, best |-> best,
     caught |-> caught, result |-> result, http |-> http, upstream |-> upstream]

\* the scheduler takes the running thread off and puts the other one on
Switch ==
    /\ other # NoOther
    /\ other' = Locals(3 - other.id)
    /\ url' = other.url
    /\ pc' = other.pc
    /\ idx' = Found("idx", other.idx, idx)
    /\ vid' = Found("vid", other.vid, vid)
    /\ contacted' = other.contacted
    /\ resp' = Found("r", other.resp, resp)
    /\ streams' = Found("streams", other.streams, streams)
    /\ best' = Found("best", other.best, best)
    /\ caught' = other.caught
    /\ result' = other.result
    /\ http' = other.http
    /\ upstream' = other.upstream
    /\ UNCHANGED <<run, first, keepVars, searchVars>>

\* the answers for one video: the providers before the k-th fail, the
\* k-th offers the stream c, the ones after it the stream "z"; the full
\* extraction gives c when it is the k-th and fails otherwise
ServedBy(k, c) ==
    [q \in Providers |->
        LET n == CHOOSE n \in 1..Len(ChainOrder) : ChainOrder[n] = q
        IN  IF q = YtDlp
            THEN (IF n = k THEN DlpInfo("info", U(c), <<>>)
                  ELSE DlpInfo("raise", NoStr, <<>>))
            ELSE IF n < k THEN FastResp("non200", <<>>)
            ELSE IF n = k
                 THEN FastResp("ok", <<Cand(Int_(64000), U("z"), 250, AudioWebm),
                                       Cand(Int_(128000), U(c), 250, AudioWebm)>>)
                 ELSE FastResp("ok", <<Cand(Int_(128000), U("z"), 250, AudioWebm)>>)]

\* two requests for two videos are posted; the first thread is running
ConcInit ==
    /\ run = 1
    /\ url = Scheme \o ShortHost \o IdA
    /\ pc = "recv"
    /\ idx = 0
    /\ vid = [ok |-> FALSE, id |-> <<>>]
    /\ contacted = <<>>
    /\ resp = NoResp
    /\ streams = <<>>
    /\ best = NoBest
    /\ caught = ""
    /\ result = NoResult
    /\ http = NoHttp
    /\ upstream \in {ServedBy(k, "a") : k \in 1..(Len(ChainOrder) + 1)}
    /\ first = NoResult
    /\ other \in {[id |-> 2, url |-> u, pc |-> "recv", idx |-> 0,
                    vid |-> [ok |-> FALSE, id |-> <<>>], contacted |-> <<>>,
                    resp |-> NoResp, streams |-> <<>>, best |-> NoBest,
                    caught |-> "", result |-> NoResult, http |-> NoHttp,
                    upstream |-> ServedBy(k, "b")] :
                       u \in {Scheme \o WatchHost \o VParam \o IdB \o Amp,
                              Scheme \o OtherSite},
                       k \in 1..(Len(ChainOrder) + 1)}
    /\ kpc = "off"
    /\ ping = NoPing
    /\ query = <<>>
    /\ asked = <<>>
    /\ listing = NoListing
    /\ found = NoFound

ConcNext ==
    \/ Receive
    \/ GetPiped \/ PickPiped \/ ReturnPiped
    \/ GetPipedVideo \/ PickPipedVideo \/ ReturnPipedVideo
    \/ GetYoutubei \/ PickYoutubei \/ ReturnYoutubei
    \/ CallYtDlp \/ HandleYtDlp
    \/ Switch

ConcSpec == ConcInit /\ [][ConcNext]_vars

----------------------------------------------------------------------------
(* The keep_awake thread next to one /resolve request                      *)

\* the routes of the application: lines 216, 238, 257 and 279
Routes ==
    {[method |-> "POST", path |-> "/search", handler |-> "search_song"],
     [method |-> "GET", path |-> "/popular", handler |-> "get_popular"],
     [method |-> "GET", path |-> "/recommendations", handler |-> "get_recommendations"],
     [method |-> "POST", path |-> "/resolve", handler |-> "resolve_audio"]}

\* what the application does with a request: the handler of the route
\* that matches method and path; 405 when only the path matches, 404
\* when nothing does
Route(method, path) ==
    IF \E r \in Routes : r.method = method /\ r.path = path
    THEN [status |-> "200",
          handler |-> (CHOOSE r \in Routes : r.method = method /\ r.path = path).handler]
    ELSE IF \E r \in Routes : r.path = path
         THEN [status |-> "405", handler |-> "none"]
         ELSE [status |-> "404", handler |-> "none"]

\* line 298: the request of the self-ping (the query string plays no part
\* in the routing)
PingRequest == [method |-> "GET", path |-> "/resolve"]

\* what requests.get raises when the service is not reached in time
PingErrors == {"ConnectionError", "Timeout"}

\* mutant of KeepAwakeCatches: `except requests.ConnectionError:`
KeepAwakeCatchesConnectionError(exc) == exc = "ConnectionError"

\* the bare `except:` of line 299
KeepAwakeCatches(exc) == TRUE

\* line 298: the GET is sent
SendPing ==
    /\ kpc = "get"
    /\ kpc' = "wait"
    /\ ping' = [method |-> PingRequest.method, path |-> PingRequest.path,
                outcome |-> "sent", handler |-> "none", before |-> ping.outcome]
    /\ UNCHANGED <<resolveVars, other, searchVars>>

\* the application answers the self-ping; requests.get returns whatever
\* the status is
ServePing ==
    /\ kpc = "wait"
    /\ LET r == Route(ping.method, ping.path)
       IN  ping' = [ping EXCEPT !.outcome = r.status, !.handler = r.handler]
    /\ kpc' = "sleep"
    /\ UNCHANGED <<resolveVars, other, searchVars>>

\* the service is not reached, or does not answer within the timeout:
\* requests.get raises, lines 299-300 swallow the exception
PingFails ==
    /\ kpc = "wait"
    /\ \E e \in PingErrors :
          /\ ping' = [ping EXCEPT !.outcome = e]
          /\ kpc' = IF KeepAwakeCatches(e) THEN "sleep" ELSE "dead"
    /\ UNCHANGED <<resolveVars, other, searchVars>>

\* line 301: time.sleep(14 * 60) is over, the loop goes round
Wake ==
    /\ kpc = "sleep"
    /\ kpc' = "get"
    /\ UNCHANGED <<ping, resolveVars, other, searchVars>>

\* answers of the providers next to the thread: a failure or one stream
KeepFast ==
    {FastResp("non200", <<>>),
     FastResp("ok", <<Cand(Int_(64000), U("a"), 250, AudioWebm)>>)}

\* line 303: the thread is started when the module is loaded; one request
\* is posted
KeepInit ==
    /\ run = 1
    /\ url = Scheme \o ShortHost \o IdA
    /\ pc = "recv"
    /\ idx = 0
    /\ vid = [ok |-> FALSE, id |-> <<>>]
    /\ contacted = <<>>
    /\ resp = NoResp
    /\ streams = <<>>
    /\ best = NoBest
    /\ caught = ""
    /\ result = NoResult
    /\ http = NoHttp
    /\ upstream \in {f \in [Providers -> KeepFast \cup FixedDlp] :
                        \A q \in Providers : (f[q] \in FixedDlp) <=> (q = YtDlp)}
    /\ first = NoResult
    /\ other = NoOther
    /\ kpc = "get"
    /\ ping = NoPing
    /\ query = <<>>
    /\ asked = <<>>
    /\ listing = NoListing
    /\ found = NoFound

\* a step of the thread
KeepAwake == SendPing \/ ServePing \/ PingFails \/ Wake

KeepNext ==
    \/ Receive
    \/ GetPiped \/ PickPiped \/ ReturnPiped
    \/ GetPipedVideo \/ PickPipedVideo \/ ReturnPipedVideo
    \/ GetYoutubei \/ PickYoutubei \/ ReturnYoutubei
    \/ CallYtDlp \/ HandleYtDlp
    \/ SendPing \/ ServePing \/ PingFails \/ Wake

\* the thread is scheduled again and again, requests.get comes back within
\* its timeout (answered or not), and time.sleep returns
KeepSpec ==
    /\ KeepInit
    /\ [][KeepNext]_vars
    /\ WF_vars(SendPing)
    /\ WF_vars(ServePing \/ PingFails)
    /\ WF_vars(Wake)

----------------------------------------------------------------------------
(* Properties of the chain, checked under Spec                             *)

\* the handler's position before the call to the k-th provider
StagePc(k) ==
    IF k <= Len(PIPED_INSTANCES) THEN "piped"
    ELSE <<"piped.video", "youtubei", "yt-dlp">>[k - Len(PIPED_INSTANCES)]

FastWait == {"piped:wait", "piped.video:wait", "youtubei:wait"}
FastPicked == {"piped:picked", "piped.video:picked", "youtubei:picked"}

\* C1: the providers are contacted in the fixed order, each only after
\* every earlier one was contacted and yielded no URL; once a provider
\* yields a URL the chain has returned that URL and nothing is contacted
\* after it.
C1_FixedOrder ==
    /\ Len(contacted) <= Len(ChainOrder)
    /\ \A k \in 1..Len(contacted) : contacted[k].provider = ChainOrder[k]
    /\ \A k \in 1..(Len(contacted) - 1) : ~contacted[k].yielded
    /\ \A k \in 1..Len(contacted) :
          contacted[k].yielded =>
             /\ pc = "done"
             /\ result.kind = "return"
             /\ result.url = contacted[k].url

\* the unofficial API yields the URL after the four mirrors yielded none
C1_Witness ==
    /\ pc = "done"
    /\ Len(contacted) = Len(PIPED_INSTANCES) + 2
    /\ contacted[Len(contacted)].yielded
    /\ result.kind = "return"

\* C2 (as claimed): whatever the providers answer, resolve_audio_url
\* returns a non-empty, non-null URL or raises; it never returns an empty
\* or null URL.
C2_NeverEmptyUrl ==
    result.kind = "return" => (result.url.t = "str" /\ result.url.s # <<>>)

\* the attempt the handler is in the middle of, on the response in hand
AttemptInHand ==
    CASE pc = "youtubei:wait" -> YoutubeiAttempt(resp)
      [] pc = "yt-dlp:wait" -> YtDlpAttempt(resp)
      [] OTHER -> PipedAttempt(resp)

\* a failure of the attempt in hand: network error or timeout, non-200,
\* malformed or wrongly shaped JSON, an exception on the candidates
FailureInHand ==
    /\ pc \in FastWait \cup {"yt-dlp:wait"}
    /\ \/ resp.kind \in FastFailures \cup {"raise", "none"}
       \/ AttemptInHand.kind = "raise"

\* a failure moves the chain to the call of the next provider, or, after
\* the last provider, to the exhaustion error
C3_FailureStep ==
    FailureInHand =>
       LET n == Len(contacted)
       IN  IF n < Len(ChainOrder)
           THEN /\ pc' = StagePc(n + 1)
                /\ result' = NoResult
                /\ n + 1 <= Len(PIPED_INSTANCES) => idx' = n + 1
           ELSE /\ pc' = "done"
                /\ result'.kind = "raise"
                /\ result'.exc = "RuntimeError"

C4_NoManifestUrl ==
    (result.kind = "return" /\ best.some /\ Len(contacted) < Len(ChainOrder))
       => ~Contains(result.url.s, ManifestMarker)

\* candidate c carries an integer bitrate not above the ceiling
HasBitrateWithin(c) == c.bitrate.t = "int" /\ c.bitrate.n <= BITRATE_CEILING

\* the picked candidate is a within-ceiling one of the highest bitrate
PicksHighestWithin ==
    /\ HasBitrateWithin(streams[best.i])
    /\ \A i \in 1..Len(streams) :
          HasBitrateWithin(streams[i]) =>
             streams[i].bitrate.n <= streams[best.i].bitrate.n

\* C5 (as claimed): when some candidate of a fast provider has a bitrate
\* within the ceiling, the candidate picked from that provider is the one
\* with the highest bitrate not exceeding the ceiling.
C5_HighestWithinCeiling ==
    (pc \in FastPicked /\ \E i \in 1..Len(streams) : HasBitrateWithin(streams[i]))
       => PicksHighestWithin

\* C5 (amended): the same, when some candidate has a non-zero bitrate
\* within the ceiling; a bitrate of 0 counts as unspecified.
C5_HighestNonZeroWithinCeiling ==
    (pc \in FastPicked /\ \E i \in 1..Len(streams) :
                            HasBitrateWithin(streams[i]) /\ streams[i].bitrate.n # 0)
       => PicksHighestWithin

\* from a list with 64000, 128000 and an above-ceiling candidate, the
\* 128000 one is picked
C5_Witness ==
    /\ pc \in FastPicked
    /\ Len(streams) = 3
    /\ \E i, j \in 1..Len(streams) :
          /\ streams[i].bitrate = Int_(64000)
          /\ streams[j].bitrate.t = "int"
          /\ streams[j].bitrate.n > BITRATE_CEILING
    /\ streams[best.i].bitrate = Int_(128000)

\* C6 (as claimed): when no candidate of a fast provider is within the
\* ceiling, the candidate picked is the lowest-bitrate candidate of the
\* list.
C6_LowestFallback ==
    (/\ pc \in FastPicked
     /\ \A i \in 1..Len(streams) :
           streams[i].bitrate.t = "int" /\ streams[i].bitrate.n > BITRATE_CEILING)
       => \A i \in 1..Len(streams) :
             streams[best.i].bitrate.n <= streams[i].bitrate.n

\* C9: every request ends in a success response carrying the URL that
\* was resolved, or in a 400 with a reason; an invalid URL gives 400 with
\* no provider contacted, exhaustion gives 400, and nothing gives a 500.
C9_SuccessOr400 ==
    /\ http.status \in {0, 200, 400}
    /\ (http.status = 0) <=> (pc # "done")
    /\ http.status = 200 =>
          result.kind = "return" /\ http.audio_url = result.url
    /\ http.status = 400 =>
          http.detail # "" /\ (result.kind = "raise" \/ ~vid.ok)
    /\ (pc = "done" /\ ~vid.ok) => (http.status = 400 /\ contacted = <<>>)
    /\ result.kind = "raise" => http.status = 400
    /\ result.kind = "return" => http.status = 200

\* the chain is exhausted after all six providers and the answer is 400
C9_Witness ==
    /\ pc = "done"
    /\ result.kind = "raise"
    /\ Len(contacted) = Len(ChainOrder)
    /\ http.status = 400

----------------------------------------------------------------------------
(* Properties of the chain against an unchanged upstream, under FixedSpec  *)

\* the format tags of the two tiers of the specification
PreferredTags == {249, 250}
FallbackTags == {251}

FastProviders == {ChainOrder[k] : k \in 1..(Len(ChainOrder) - 1)}

\* response r offers a stream with a URL and one of the tags
OffersTag(r, tags) ==
    /\ r.kind = "ok"
    /\ \E i \in 1..Len(r.streams) :
          /\ r.streams[i].itag \in tags
          /\ r.streams[i].url.t = "str"
          /\ r.streams[i].url.s # <<>>

\* C7 (as claimed): a fallback-tier (itag 251) URL is returned only when
\* no fast provider offers a preferred-tier descriptor; with a preferred
\* one on provider 2 and only a fallback one on provider 1 the preferred
\* one of provider 2 is returned.
C7_PreferredTierFirst ==
    (/\ pc = "done"
     /\ result.kind = "return"
     /\ best.some
     /\ Len(contacted) < Len(ChainOrder)
     /\ streams[best.i].itag \in FallbackTags)
       => \A q \in FastProviders : ~OffersTag(upstream[q], PreferredTags)

\* the candidates the bitrate rule ranks: those with a non-zero bitrate
\* within the ceiling, or all of them when there is none
RankedOf(ss) ==
    LET low == {i \in 1..Len(ss) :
                   /\ ss[i].bitrate.t = "int"
                   /\ ss[i].bitrate.n # 0
                   /\ ss[i].bitrate.n <= BITRATE_CEILING}
    IN  IF low = {} THEN 1..Len(ss) ELSE low

\* the top-ranked candidate: highest bitrate, the last one of a tie
TopOf(ss) ==
    CHOOSE i \in RankedOf(ss) :
       \A j \in RankedOf(ss) :
          \/ ss[j].bitrate.n < ss[i].bitrate.n
          \/ (ss[j].bitrate.n = ss[i].bitrate.n /\ j <= i)

\* the top-ranked candidate of response r has a URL
Serves(r) ==
    /\ r.kind = "ok"
    /\ r.streams # <<>>
    /\ r.streams[TopOf(r.streams)].url.t = "str"
    /\ r.streams[TopOf(r.streams)].url.s # <<>>

\* C7 (amended): no format-tag tiers; the chain returns the URL of the
\* top-ranked candidate of the first fast provider, in the fixed order,
\* whose top-ranked candidate has a URL, whatever its format tag, and
\* contacts no provider after it.
C7_FirstServingProvider ==
    pc = "done" =>
       LET serving == {k \in 1..(Len(ChainOrder) - 1) : Serves(upstream[ChainOrder[k]])}
       IN  IF serving = {} THEN Len(contacted) = Len(ChainOrder)
           ELSE LET k == CHOOSE k \in serving : \A j \in serving : k <= j
                    ss == upstream[ChainOrder[k]].streams
                IN  /\ Len(contacted) = k
                    /\ result.kind = "return"
                    /\ result.url = ss[TopOf(ss)].url

\* provider 1 offers only a fallback-tier stream, provider 2 a
\* preferred-tier one, and the URL returned is the one of provider 1
C7_Witness ==
    /\ pc = "done"
    /\ result.kind = "return"
    /\ Len(contacted) = 1
    /\ streams[best.i].itag \in FallbackTags
    /\ ~OffersTag(upstream[ChainOrder[1]], PreferredTags)
    /\ OffersTag(upstream[ChainOrder[2]], PreferredTags)

\* C10: the same request repeated against the unchanged upstream ends
\* as the first one did: the same URL, or exhaustion both times.
C10_SameOutcomeTwice ==
    (run = 2 /\ pc = "done") => result = first

\* both requests returned the URL picked among two candidates that tie
\* on the bitrate
C10_Witness ==
    /\ run = 2
    /\ pc = "done"
    /\ result.kind = "return"
    /\ first.kind = "return"
    /\ Len(streams) = 2
    /\ streams[1].bitrate = streams[2].bitrate
    /\ streams[1].url # streams[2].url

----------------------------------------------------------------------------
(* Properties of the identifier extraction, under ExtractSpec              *)

\* what precedes the identifier in the two valid forms
ValidPrefixes ==
    {Scheme \o WatchHost \o VParam, WatchHost \o VParam,
     Scheme \o ShortHost, ShortHost}

\* the valid prefixes u starts with, an identifier character following
ValidPrefixesOf(u) ==
    {q \in ValidPrefixes :
        /\ OccursAt(q, u, 1)
        /\ Len(u) > Len(q)
        /\ u[Len(q) + 1] \in IdChars}

\* the identifier of a valid URL: the characters after the prefix, up to
\* the first one that cannot belong to an identifier
ExpectedId(u) ==
    LET q == CHOOSE q \in ValidPrefixesOf(u) : TRUE
        n == Len(q)
        ends == {e \in (n + 1)..Len(u) :
                    /\ \A i \in (n + 1)..e : u[i] \in IdChars
                    /\ (e = Len(u) \/ u[e + 1] \notin IdChars)}
    IN  SubSeq(u, n + 1, CHOOSE e \in ends : TRUE)

\* C8 (as claimed): extraction gives exactly ID for every valid
\* watch?v=ID and youtu.be/ID URL and fails for every other string.
C8_ExactOrInvalid ==
    pc = "extracted" =>
       IF ValidPrefixesOf(url) # {}
       THEN vid.ok /\ vid.id = ExpectedId(url)
       ELSE ~vid.ok

\* the half of C8 that holds: the identifier of every valid URL
C8_ValidGivesId ==
    (pc = "extracted" /\ ValidPrefixesOf(url) # {})
       => (vid.ok /\ vid.id = ExpectedId(url))

----------------------------------------------------------------------------
(* Further properties of the chain, under Spec                             *)

\* candidate c has an unspecified bitrate: the key is missing, null or 0
Unspecified(c) == c.bitrate.t \in {"missing", "null"} \/ c.bitrate = Int_(0)

\* C14: a candidate of a fast provider with an unspecified (missing, null
\* or zero) bitrate is picked only when every candidate of the same list
\* has an unspecified bitrate.
C14_UnspecifiedOnlyWhenNoBitrate ==
    (pc \in FastPicked /\ Unspecified(streams[best.i]))
       => \A i \in 1..Len(streams) : Unspecified(streams[i])

\* no candidate is within the ceiling, one has no bitrate at all, and the
\* one picked carries a bitrate
C14_Witness ==
    /\ pc \in FastPicked
    /\ \E i \in 1..Len(streams) : streams[i].bitrate.t = "missing"
    /\ ~Unspecified(streams[best.i])
    /\ streams[best.i].bitrate.n > BITRATE_CEILING

\* the providers answering GET .../streams/{video_id}: the configured
\* instances and piped.video
Mirrors == PIPED_INSTANCES \o <<PipedVideo>>

\* how often provider q was contacted
TimesContacted(q) ==
    Cardinality({k \in 1..Len(contacted) : contacted[k].provider = q})

\* how far the handler is in the function body: three steps per fast
\* provider (request, selection, decision), two for the full extraction
Position ==
    CASE pc = "recv" -> 0
      [] pc = "piped" -> 3 * idx - 2
      [] pc = "piped:wait" -> 3 * idx - 1
      [] pc = "piped:picked" -> 3 * idx
      [] pc = "piped.video" -> 3 * Len(PIPED_INSTANCES) + 1
      [] pc = "piped.video:wait" -> 3 * Len(PIPED_INSTANCES) + 2
      [] pc = "piped.video:picked" -> 3 * Len(PIPED_INSTANCES) + 3
      [] pc = "youtubei" -> 3 * Len(Mirrors) + 1
      [] pc = "youtubei:wait" -> 3 * Len(Mirrors) + 2
      [] pc = "youtubei:picked" -> 3 * Len(Mirrors) + 3
      [] pc = "yt-dlp" -> 3 * Len(Mirrors) + 4
      [] pc = "yt-dlp:wait" -> 3 * Len(Mirrors) + 5
      [] OTHER -> 3 * Len(Mirrors) + 6

\* each provider is contacted at most once: at most Len(Mirrors) mirror
\* requests, one request to the unofficial API, one full extraction, and
\* at most Len(Mirrors) + 1 timed requests before the full extraction
C15_AtMostOnce ==
    /\ \A q \in Providers : TimesContacted(q) <= 1
    /\ Cardinality({k \in 1..Len(contacted) :
                       \E m \in 1..Len(Mirrors) : contacted[k].provider = Mirrors[m]})
          <= Len(Mirrors)
    /\ Cardinality({k \in 1..Len(contacted) : contacted[k].provider # YtDlp})
          <= Len(Mirrors) + 1
    /\ (pc = "done" /\ vid.ok) =>
          \/ result.kind = "return"
          \/ result.kind = "raise" /\ result.exc = "RuntimeError"

\* C15: every run of resolve_audio_url ends, Resolved or Exhausted, after
\* contacting each provider at most once; every step moves the handler
\* forward in the function body, so nothing is retried and the chain
\* never goes back to an earlier provider.
C15_TerminatesWithoutRetry ==
    /\ [][Position' > Position]_vars
    /\ [](Position <= 3 * Len(Mirrors) + 6)
    /\ [](C15_AtMostOnce)

\* the chain is exhausted: every provider was contacted, once
C15_Witness ==
    /\ pc = "done"
    /\ result.kind = "raise"
    /\ \A q \in Providers : TimesContacted(q) = 1

\* the declared bitrate of a format of the full extraction: abr, else tbr
Declared(f) ==
    IF f.abr.t = "int" /\ f.abr.n # 0 THEN f.abr.n
    ELSE IF f.tbr.t = "int" THEN f.tbr.n ELSE 0

\* the formats of info r that have a URL
WithUrl(r) ==
    {i \in 1..Len(r.formats) :
        r.formats[i].url.t = "str" /\ r.formats[i].url.s # <<>>}

\* on the info in hand the extraction step returns the URL of a format of
\* the highest declared bitrate among those with a URL, and the chain is
\* exhausted when no format has one
BestDeclaredStep ==
    IF WithUrl(resp) = {}
    THEN result'.kind = "raise" /\ result'.exc = "RuntimeError"
    ELSE /\ result'.kind = "return"
         /\ \E i \in WithUrl(resp) :
               /\ result'.url = resp.formats[i].url
               /\ \A j \in WithUrl(resp) :
                     Declared(resp.formats[j]) <= Declared(resp.formats[i])

\* C16 (as claimed): the full extraction is called only after every fast
\* provider was contacted and yielded no URL; on the info it reports it
\* returns the URL of the format with the highest declared bitrate (abr,
\* else tbr) among the formats with a URL, whatever the ceiling and the
\* format tags, and the chain is exhausted when no format has a URL.
C16_BestDeclaredBitrate ==
    /\ [](pc = "yt-dlp:wait" =>
             /\ Len(contacted) = Len(ChainOrder)
             /\ \A k \in 1..(Len(contacted) - 1) : ~contacted[k].yielded)
    /\ [][(pc = "yt-dlp:wait" /\ resp.kind = "info") => BestDeclaredStep]_vars

\* the part of C16 that holds: the same, for an info without the
\* top-level "url" key
C16_WithoutTopLevelUrl ==
    /\ [](pc = "yt-dlp:wait" =>
             /\ Len(contacted) = Len(ChainOrder)
             /\ \A k \in 1..(Len(contacted) - 1) : ~contacted[k].yielded)
    /\ [][(pc = "yt-dlp:wait" /\ resp.kind = "info" /\ resp.url.t = "missing")
              => BestDeclaredStep]_vars

\* the decision on the candidate picked from a fast provider: its URL is
\* returned, or, when it has none, nothing is returned and the chain is
\* at the call of the next provider
TopOnlyStep ==
    LET top == streams[TopOf(streams)]
    IN  IF top.url.t = "str" /\ top.url.s # <<>>
        THEN result'.kind = "return" /\ result'.url = top.url
        ELSE /\ result' = NoResult
             /\ pc' = StagePc(Len(contacted) + 1)

\* C17: of the candidates of a fast provider only the top-ranked one is
\* considered: its URL is returned, or, when it has no URL, the chain
\* goes on to the next provider whatever the other candidates offer; a
\* URL returned from a fast provider is the one of its top-ranked
\* candidate.
C17_TopRankedOnly ==
    /\ [](pc \in FastPicked => best.i = TopOf(streams))
    /\ [][(pc \in FastPicked) => TopOnlyStep]_vars
    /\ []((result.kind = "return" /\ Len(contacted) < Len(ChainOrder))
             => result.url = streams[TopOf(streams)].url)

\* the top-ranked candidate has no URL while another candidate of the
\* same provider has one
C17_Witness ==
    /\ pc \in FastPicked
    /\ ~TruthyStr(streams[best.i].url)
    /\ \E j \in 1..Len(streams) : TruthyStr(streams[j].url)

----------------------------------------------------------------------------
(* Properties of the keep_awake thread, under KeepSpec                     *)

\* how a self-ping can end
PingOutcomes == {"200", "404", "405"} \cup PingErrors

\* C11: the loop of keep_awake is never ended by a failure: however a
\* self-ping ends (answered, connection error, timeout) the thread sleeps
\* and pings again, so pings occur infinitely often; and no step of the
\* thread touches the request, whose outcome is the one it has alone.
C11_PingsForever ==
    /\ []<>(kpc = "wait")
    /\ \A o \in PingOutcomes : (kpc = "sleep" /\ ping.outcome = o) ~> (kpc = "wait")
    /\ [](kpc # "dead")
    /\ [][(kpc' # kpc \/ ping' # ping) => UNCHANGED resolveVars]_vars
    /\ [](pc = "done" => http = AloneOutcome(url, upstream))

\* a ping is on its way after the ping before it failed, and the request
\* was resolved meanwhile
C11_Witness ==
    /\ kpc = "wait"
    /\ ping.before \in PingErrors
    /\ pc = "done"
    /\ http.status = 200

\* C19 (as claimed): the self-ping of a tick is a GET of the liveness
\* endpoint /ping, answered by its handler with status alive; it runs no
\* resolution chain.
C19_TickPingsLivenessEndpoint ==
    ping.outcome # "none" =>
       /\ ping.method = "GET"
       /\ ping.path = "/ping"
       /\ ping.handler # "resolve_audio"
       /\ ping.outcome \in {"sent", "200"} \cup PingErrors

\* the part of C19 that holds: a tick sends one GET, which no handler is
\* run for, and no step of the thread contacts a provider or touches the
\* request
C19_TickStartsNoChain ==
    /\ [](ping.handler = "none")
    /\ [][(kpc' # kpc \/ ping' # ping) => UNCHANGED resolveVars]_vars
    /\ [][(kpc = "get" /\ kpc' # kpc) => (kpc' = "wait" /\ ping'.method = "GET")]_vars

----------------------------------------------------------------------------
(* Properties of two requests at the same time, under ConcSpec             *)

\* under FixedSpec: a request on its own ends as the sequential
\* computation says
AloneIsLoneRun == pc = "done" => http = AloneOutcome(url, upstream)

----------------------------------------------------------------------------
(* Properties of POST /search, under SearchSpec                            *)

\* the query, stripped, holds the name of a video host
LooksLikeUrl == Contains(strip(query), YoutubeCom) \/ Contains(strip(query), YoutuBe)

\* C13: for a query that looks like a video URL the extraction is called
\* for that URL itself, not for a keyword search; the response holds
\* exactly one song, the summary of what the extraction gave for the URL,
\* whether or not it carries a music term; it fails only when the
\* extraction fails.
C13_SingleItemLookup ==
    (pc = "done" /\ LooksLikeUrl) =>
       /\ asked = strip(query)
       /\ IF listing.kind \in {"raise", "none"}
          THEN found.status = 400 /\ found.results = <<>>
          ELSE /\ found.status = 200
               /\ found.results = <<Song(listing.self)>>

\* a URL was looked up and the one song of the response carries no music
\* term, while the extraction gave a list of entries along with it
C13_Witness ==
    /\ pc = "done"
    /\ LooksLikeUrl
    /\ Len(found.results) = 1
    /\ \A k \in MusicTerms :
          /\ ~Contains(lower(found.results[1].title), k)
          /\ ~Contains(lower(found.results[1].artist), k)
    /\ Len(listing.entries) > 1

\* song s carries a music term in its lower-cased title or artist
HasTerm(s) ==
    \E k \in MusicTerms :
       Contains(lower(s.title), k) \/ Contains(lower(s.artist), k)

\* a is b with some elements left out, the order kept
RECURSIVE IsSubseq(_, _)
IsSubseq(a, b) ==
    IF a = <<>> THEN TRUE
    ELSE IF b = <<>> THEN FALSE
    ELSE IF Head(a) = Head(b) THEN IsSubseq(Tail(a), Tail(b))
    ELSE IsSubseq(a, Tail(b))

\* the summaries of the raw listing, in its order
RawSongs ==
    IF listing.kind = "list"
    THEN [i \in 1..Len(listing.entries) |-> Song(listing.entries[i])]
    ELSE <<Song(listing.self)>>

\* C18: for a keyword query every song of the response carries a music
\* term in its lower-cased title or artist, the songs are in the order
\* of the raw listing, and there are at most 15 of them.
C18_FilteredOrderedCapped ==
    (pc = "done" /\ ~LooksLikeUrl /\ found.status = 200) =>
       /\ \A i \in 1..Len(found.results) : HasTerm(found.results[i])
       /\ IsSubseq(found.results, RawSongs)
       /\ Len(found.results) <= SearchLimit

\* a keyword search gave more than 15 entries, some of them without a
\* music term: some songs are returned, fewer than 15
C18_Witness ==
    /\ pc = "done"
    /\ ~LooksLikeUrl
    /\ Len(listing.entries) > SearchLimit
    /\ \E i \in 1..Len(RawSongs) : ~HasTerm(RawSongs[i])
    /\ Len(found.results) > 1
    /\ Len(found.results) < SearchLimit

============================================================================
